---- MODULE Spec2Model ----
(***************************************************************************)
(* ghostx-server: the transaction statistics cache (fetchTxStats, the      *)
(* refresh timer, the /api/tx-stats read path) and the wallet-code         *)
(* handlers, as state machines.                                            *)
(*                                                                         *)
(* Two entry points serve the statistics cache:                            *)
(*   "index"      src/server/index.ts, startServer()                       *)
(*   "standalone" src/unnamed/part_000 lines 143-214, module top level     *)
(*                                                                         *)
(* An array of signature records is kept as the bag of its blockTime       *)
(* values together with the signature of its last element: the code reads  *)
(* only the array's length, the blockTime of each element and the last     *)
(* element's signature.  A blockTime is <<>> when absent/null and <<t>>    *)
(* when it is the number t.                                                *)
(***************************************************************************)
EXTENDS Bags, FiniteSets, Integers, Sequences, TLC

VARIABLES
    entry,        \* which entry point this process runs
    phase,        \* "boot" | "initTable" | "initialFetch" | "listening" | "halted" | "crashed"
    now,          \* Date.now(), milliseconds
    timer,        \* <<>> before setInterval, <<t>>: next expiry of the interval timer
    cachedStats,  \* the module-level cache
    cyc,          \* the invocations of fetchTxStats, by invocation number
    lastRead,     \* <<>> or <<body>>: body of the latest /api/tx-stats response
    pool,         \* clients of the pg pool that are checked out
    table,        \* wallet_codes: (wallet_address, code) -> <<>> or <<row>>
    reqs          \* the save-code and get-codes requests being handled

dbVars == <<pool, table, reqs>>
vars == <<entry, phase, now, timer, cachedStats, cyc, lastRead, pool, table, reqs>>

----------------------------------------------------------------------------
(* Program constants *)

Limit == 100
DaySeconds == 86400
MsPerSecond == 1000
RefreshPeriod == 60 * 60 * 1000

(* Bounds of the model *)

MaxCycles == 3      \* invocations of fetchTxStats in one run
MaxPages == 4       \* upstream responses consumed by one invocation
MaxFullPages == 1   \* full pages one invocation receives in the server specification
MaxRequests == 1    \* save-code and get-codes requests handled at a time
MaxDbRequests == 2    \* requests the two wallet-code servers handle at a time
MaxPeriods == 2     \* whole refresh periods the clock advances
MaxSubSteps == 1    \* sub-period clock steps

StartTime == 100000 * MsPerSecond
SubStep == MsPerSecond + MsPerSecond \div 2

Entries == {"index", "standalone"}
CycleIds == 1..MaxCycles
ReqIds == 1..MaxRequests
Wallets == {"w1"}
Codes == {"c1"}
Amounts == {<<>>, <<5>>}

Undefined == "undefined"
Absent == <<>>
Time(t) == <<t>>

----------------------------------------------------------------------------
(* The cache *)

ZeroStats == [totalTx |-> 0, last24hTx |-> 0, lastUpdated |-> 0]

\* the comparison written > instead of >=
InLast24hStrict(bt, startOf24h) ==
    /\ bt # Absent
    /\ bt[1] # 0
    /\ bt[1] > startOf24h

\* the filter written !s.blockTime || s.blockTime >= startOf24h
InLast24hOrMissing(bt, startOf24h) ==
    \/ bt = Absent
    \/ bt[1] = 0
    \/ bt[1] >= startOf24h

\* s.blockTime && s.blockTime >= startOf24h
InLast24h(bt, startOf24h) ==
    /\ bt # Absent
    /\ bt[1] # 0
    /\ bt[1] >= startOf24h

\* the two counts stored under each other's name
ComputeStatsSwapped(allSignatures, nowMs) ==
    LET startOf24h == nowMs \div MsPerSecond - DaySeconds
        recent == {bt \in DOMAIN allSignatures :
                      bt # Absent /\ bt[1] # 0 /\ bt[1] >= startOf24h}
    IN [totalTx |-> BagCardinality([bt \in recent |-> allSignatures[bt]]),
        last24hTx |-> BagCardinality(allSignatures),
        lastUpdated |-> nowMs]

\* lines 112-120: the snapshot computed from all fetched signatures
ComputeStats(allSignatures, nowMs) ==
    LET nowSec == nowMs \div MsPerSecond
        startOf24h == nowSec - DaySeconds
        recent == {bt \in DOMAIN allSignatures : InLast24h(bt, startOf24h)}
    IN [totalTx |-> BagCardinality(allSignatures),
        last24hTx |-> BagCardinality([bt \in recent |-> allSignatures[bt]]),
        lastUpdated |-> nowMs]

\* the fields assigned one by one, one of them forgotten
ReplaceCacheMerged(old, new) == [old EXCEPT !.totalTx = new.totalTx, !.lastUpdated = new.lastUpdated]

\* cachedStats = { ... }: the assignment replaces the whole object
ReplaceCache(old, new) == new

\* the loop going on until a page comes back empty
KeepFetchingUntilEmpty(batchLength) == batchLength > 0

\* an empty page taken as a reason to ask again
KeepFetchingOnEmpty(batchLength) == batchLength = Limit \/ batchLength = 0

\* batch.length === 100
KeepFetching(batchLength) == batchLength = Limit

\* the cursor never sent
RequestCursorDropped(before) == Undefined

\* before ? [PDA_ADDRESS, {limit, before}] : [PDA_ADDRESS, {limit}]
RequestCursor(before) == IF before = Undefined \/ before = "" THEN Undefined ELSE before

----------------------------------------------------------------------------
(* Upstream responses *)

Rep(x, n) == IF n = 0 THEN EmptyBag ELSE [e \in {x} |-> n]

\* a page of n records: n - k with blockTime a, then k with blockTime b
Batch(n, a, k, b, sig) ==
    [times |-> Rep(a, n - k) (+) Rep(b, k),
     lastSig |-> IF n = 0 THEN Undefined ELSE sig]

BoundaryTime == StartTime \div MsPerSecond - DaySeconds

BlockTimes == {Absent, Time(BoundaryTime - 1), Time(BoundaryTime), Time(2 * (StartTime \div MsPerSecond))}
Signatures == {"sigA", "sigB"}

\* the responses of the aggregation specification: full pages of one blockTime,
\* last pages of 0 or 37 records with at most one record of another blockTime
AggBatches ==
    { Batch(Limit, a, 0, a, sig) : a \in BlockTimes, sig \in Signatures }
    \cup { Batch(0, Absent, 0, Absent, Undefined) }
    \cup { Batch(37, a, 0, a, "sigB") : a \in BlockTimes }
    \cup { Batch(37, a, 1, b, "sigB") : a \in BlockTimes, b \in BlockTimes }

\* the responses of the server specification: a full page of recent records,
\* or a last page of 37 records, one of them older than the window
ServerBatches(full) ==
    (IF full THEN {Batch(Limit, Time(StartTime \div MsPerSecond), 0, Absent, "sigA")} ELSE {})
    \cup { Batch(37, Time(StartTime \div MsPerSecond), 1, Time(BoundaryTime - 1), "sigB") }

\* a parsed response body: result is <<>> when the field is missing and
\* <<batch>> when it holds an array
NoResult == [result |-> <<>>]
WithResult(batch) == [result |-> <<batch>>]

\* sigData.result || []
ResultOrEmpty(sigData) ==
    IF sigData.result = <<>> THEN Batch(0, Absent, 0, Absent, Undefined) ELSE sigData.result[1]

\* the timestamp taken when fetchTxStats was entered
ClockReadAtEntry(enteredAt, nowMs) == enteredAt

\* lines 112 and 119 read Date.now() after the loop has ended
ClockRead(enteredAt, nowMs) == nowMs

----------------------------------------------------------------------------
(* fetchTxStats *)

Unused ==
    [pc |-> "unused", allSignatures |-> EmptyBag, before |-> Undefined,
     requests |-> <<>>, pages |-> <<>>, startStats |-> ZeroStats,
     seen |-> {}, awaited |-> FALSE, result |-> <<>>,
     received |-> <<>>, enteredAt |-> 0]

InFlight == {c \in CycleIds : cyc[c].pc = "fetching"}
Started == {c \in CycleIds : cyc[c].pc # "unused"}
Running == phase \in {"initialFetch", "listening"}

\* fetchTxStats() up to its first await: the first request is on the wire
CallFetchTxStats(c, isAwaited) ==
    [pc |-> "fetching", allSignatures |-> EmptyBag, before |-> Undefined,
     requests |-> <<RequestCursor(Undefined)>>, pages |-> <<>>,
     startStats |-> cachedStats, seen |-> {}, awaited |-> isAwaited, result |-> <<>>,
     received |-> <<>>, enteredAt |-> now]

\* index.ts 193, 56: startServer() awaits initializeDatabase(), which awaits
\* pool.connect() outside its try block; a rejection there rejects
\* startServer(), whose promise nobody handles
InitializeDatabase(connected, fatal) ==
    /\ entry = "index"
    /\ phase = "boot"
    /\ IF connected
       THEN phase' = "initTable" /\ pool' = pool + 1
       ELSE phase' = (IF fatal THEN "crashed" ELSE "halted") /\ pool' = pool
    /\ UNCHANGED <<entry, now, timer, cachedStats, cyc, lastRead, table, reqs>>

\* index.ts 57-76, 196: CREATE TABLE IF NOT EXISTS answers or fails (the error
\* is caught and logged), the client is released, initializeDatabase returns
\* and startServer calls fetchTxStats()
StartServer ==
    /\ entry = "index"
    /\ phase = "initTable"
    /\ pool' = pool - 1
    /\ phase' = "initialFetch"
    /\ cyc' = [cyc EXCEPT ![1] = CallFetchTxStats(1, TRUE)]
    /\ UNCHANGED <<entry, now, timer, cachedStats, lastRead, table, reqs>>

\* part_000 196-214: fetchTxStats(); setInterval(...); app.listen(...)
StandaloneStart ==
    /\ entry = "standalone"
    /\ phase = "boot"
    /\ phase' = "listening"
    /\ cyc' = [cyc EXCEPT ![1] = CallFetchTxStats(1, FALSE)]
    /\ timer' = <<now + RefreshPeriod>>
    /\ UNCHANGED <<entry, now, cachedStats, lastRead>>
    /\ UNCHANGED dbVars

\* one iteration of the while loop on a response that parses (lines 92-110),
\* and, when the loop ends, lines 112-120; for the awaited initial call also
\* the rest of startServer (lines 198-202)
LoopIteration(c, sigData) ==
    LET self == cyc[c]
        batch == ResultOrEmpty(sigData)
        n == BagCardinality(batch.times)
        all == self.allSignatures (+) batch.times
        heard == [result |-> sigData.result # <<>>, last |-> batch.lastSig]
        stats == ComputeStats(all, ClockRead(self.enteredAt, now))
    IN
    /\ Running
    /\ self.pc = "fetching"
    /\ Len(self.pages) < MaxPages
    /\ IF KeepFetching(n)
       THEN /\ cyc' = [cyc EXCEPT ![c] =
                         [self EXCEPT !.allSignatures = all,
                                      !.before = batch.lastSig,
                                      !.requests = Append(@, RequestCursor(batch.lastSig)),
                                      !.received = Append(@, heard),
                                      !.pages = Append(@, n)]]
            /\ UNCHANGED <<phase, timer, cachedStats>>
       ELSE /\ cyc' = [cyc EXCEPT ![c] =
                         [self EXCEPT !.allSignatures = all,
                                      !.pages = Append(@, n),
                                      !.received = Append(@, heard),
                                      !.result = <<stats>>,
                                      !.startStats = ZeroStats,
                                      !.seen = {},
                                      !.enteredAt = 0,
                                      !.pc = "done"]]
            /\ cachedStats' = ReplaceCache(cachedStats, stats)
            /\ IF self.awaited
               THEN /\ timer' = <<now + RefreshPeriod>>
                    /\ phase' = "listening"
               ELSE UNCHANGED <<phase, timer>>
    /\ UNCHANGED <<entry, now, lastRead>>
    /\ UNCHANGED dbVars

\* the response carries a result array
FetchPage(c, batch) == LoopIteration(c, WithResult(batch))

\* the response carries no result field
FetchPageNoResult(c) == LoopIteration(c, NoResult)

\* fetch() or sigRes.json() rejects: fetchTxStats rejects.  The awaited call
\* rejects startServer(), whose promise nobody handles; the other calls are
\* themselves unhandled.  An unhandled rejection ends the process or only
\* warns, by the runtime's unhandled-rejections mode.
FailPage(c, fatal) ==
    LET self == cyc[c] IN
    /\ Running
    /\ self.pc = "fetching"
    /\ cyc' = [cyc EXCEPT ![c] = [self EXCEPT !.pc = "failed", !.startStats = ZeroStats,
                                              !.seen = {}, !.enteredAt = 0]]
    /\ phase' = IF fatal THEN "crashed"
                ELSE IF self.awaited THEN "halted"
                ELSE phase
    /\ UNCHANGED <<entry, now, timer, cachedStats, lastRead>>
    /\ UNCHANGED dbVars

\* the interval timer expires: setInterval(fetchTxStats, 60 * 60 * 1000)
TimerTick ==
    /\ Running
    /\ timer # <<>>
    /\ now >= timer[1]
    /\ Started # CycleIds
    /\ LET c == CHOOSE i \in CycleIds \ Started : \A j \in CycleIds \ Started : i <= j
       IN cyc' = [cyc EXCEPT ![c] = CallFetchTxStats(c, FALSE)]
    /\ timer' = <<now + RefreshPeriod>>
    /\ UNCHANGED <<entry, phase, now, cachedStats, lastRead>>
    /\ UNCHANGED dbVars

\* a read-through cache: the read starts a refresh when nothing is cached yet
GetTxStatsReadThrough ==
    /\ phase = "listening"
    /\ lastRead' = <<cachedStats>>
    /\ cyc' = [c \in CycleIds |->
                 IF c \in {i \in CycleIds : cyc[i].pc = "fetching"}
                 THEN [cyc[c] EXCEPT !.seen = @ \cup {cachedStats}]
                 ELSE IF cachedStats.lastUpdated = 0 /\ cyc[c].pc = "unused"
                         /\ \A j \in 1..(c - 1) : cyc[j].pc # "unused"
                 THEN [cyc[c] EXCEPT !.pc = "fetching", !.requests = <<"undefined">>]
                 ELSE cyc[c]]
    /\ UNCHANGED <<entry, phase, now, timer, cachedStats>>
    /\ UNCHANGED dbVars

\* app.get('/api/tx-stats'): res.json(cachedStats)
GetTxStats ==
    /\ phase = "listening"
    /\ lastRead' = <<cachedStats>>
    /\ cyc' = [c \in CycleIds |->
                 IF c \in InFlight
                 THEN [cyc[c] EXCEPT !.seen = @ \cup {cachedStats}]
                 ELSE cyc[c]]
    /\ UNCHANGED <<entry, phase, now, timer, cachedStats>>
    /\ UNCHANGED dbVars

\* wall-clock time passes
AdvanceClock(d) ==
    /\ phase # "crashed"
    /\ IF d = RefreshPeriod
       THEN (now - StartTime) \div RefreshPeriod < MaxPeriods
       ELSE ((now - StartTime) % RefreshPeriod) \div d < MaxSubSteps
    /\ now' = now + d
    /\ UNCHANGED <<entry, phase, timer, cachedStats, cyc, lastRead>>
    /\ UNCHANGED dbVars

----------------------------------------------------------------------------
(* The wallet-code handlers of index.ts.  created_at is left out of the rows. *)

Idle == [pc |-> "idle", kind |-> "", wallet |-> "", code |-> "", amount |-> <<>>,
         status |-> 0, body |-> <<>>, walletExists |-> <<>>]

Serving == entry = "index" /\ phase = "listening"

\* index.ts 126-133: POST /api/save-code up to await pool.connect()
SaveCodeReceive(r, walletAddress, code, amount) ==
    /\ Serving
    /\ reqs[r].pc \in {"idle", "done"}
    /\ reqs' = [reqs EXCEPT ![r] =
                  IF walletAddress = "" \/ code = "" \/ amount = <<>>
                  THEN [Idle EXCEPT !.pc = "done", !.kind = "save", !.status = 400]
                  ELSE [Idle EXCEPT !.pc = "connect", !.kind = "save",
                                    !.wallet = walletAddress, !.code = code,
                                    !.amount = amount]]
    /\ UNCHANGED <<entry, phase, now, timer, cachedStats, cyc, lastRead, pool, table>>

\* index.ts 152-155: GET /api/get-codes/:walletAddress up to await pool.connect()
GetCodesReceive(r, walletAddress) ==
    /\ Serving
    /\ reqs[r].pc \in {"idle", "done"}
    /\ reqs' = [reqs EXCEPT ![r] =
                  [Idle EXCEPT !.pc = "connect", !.kind = "get", !.wallet = walletAddress]]
    /\ UNCHANGED <<entry, phase, now, timer, cachedStats, cyc, lastRead, pool, table>>

\* index.ts 133, 155: pool.connect() resolves with a client, or rejects; the
\* handler is outside any try block there, so its promise rejects unhandled
\* and the request is never answered
PoolConnect(r, connected, fatal) ==
    /\ Serving
    /\ reqs[r].pc = "connect"
    /\ IF connected
       THEN /\ pool' = pool + 1
            /\ reqs' = [reqs EXCEPT ![r].pc = "query"]
            /\ phase' = phase
       ELSE /\ pool' = pool
            /\ reqs' = [reqs EXCEPT ![r].pc = "hung"]
            /\ phase' = IF fatal THEN "crashed" ELSE phase
    /\ UNCHANGED <<entry, now, timer, cachedStats, cyc, lastRead, table>>

\* index.ts 134-148: the upsert answers or fails; the client is released
SaveCodeQuery(r, ok) ==
    LET q == reqs[r] IN
    /\ Serving
    /\ q.pc = "query"
    /\ q.kind = "save"
    /\ table' = IF ok
                THEN [table EXCEPT ![<<q.wallet, q.code>>] =
                        <<[amount |-> q.amount[1], is_used |-> FALSE]>>]
                ELSE table
    /\ reqs' = [reqs EXCEPT ![r] =
                  [q EXCEPT !.pc = "done", !.status = IF ok THEN 200 ELSE 500]]
    /\ pool' = pool - 1
    /\ UNCHANGED <<entry, phase, now, timer, cachedStats, cyc, lastRead>>

\* index.ts 156-178: the select answers or fails; the client is released
GetCodesQuery(r, ok) ==
    LET q == reqs[r]
        rows == {k \in DOMAIN table : k[1] = q.wallet /\ table[k] # <<>>}
    IN
    /\ Serving
    /\ q.pc = "query"
    /\ q.kind = "get"
    /\ reqs' = [reqs EXCEPT ![r] =
                  [q EXCEPT !.pc = "done",
                            !.status = IF ok THEN 200 ELSE 500,
                            !.body = IF ok
                                     THEN <<{[value |-> k[2],
                                              amount |-> table[k][1].amount,
                                              is_used |-> table[k][1].is_used] : k \in rows}>>
                                     ELSE <<>>]]
    /\ pool' = pool - 1
    /\ UNCHANGED <<entry, phase, now, timer, cachedStats, cyc, lastRead, table>>

----------------------------------------------------------------------------
(* The wallet-code server of part_000 (lines 1-142): one row per wallet whose
   codes column is a JSON object keyed by code.  A wallet has a row exactly
   when the table holds a code for it, as a row is only ever inserted with
   one code and never deleted. *)

DbReqIds == 1..MaxDbRequests
DbCodes == {"c1", "c2"}

\* the codes object of a wallet's row
CodesOf(t, walletAddress) == [k \in DbCodes |-> t[<<walletAddress, k>>]]

\* walletExists.rows.length === 0
NoRows(codes) == \A k \in DbCodes : codes[k] = <<>>

Answer(kind, status) == [Idle EXCEPT !.pc = "done", !.kind = kind, !.status = status]

LegacyServing == entry = "legacy" /\ phase = "listening"

\* part_000 26-29, 42-44, 138-142: pool.connect() inside the try block; a
\* rejection is caught and logged, and the server listens all the same
LegacyInitializeDatabase(connected) ==
    /\ entry = "legacy"
    /\ phase = "boot"
    /\ IF connected
       THEN phase' = "initTable" /\ pool' = pool + 1
       ELSE phase' = "listening" /\ pool' = pool
    /\ UNCHANGED <<entry, now, timer, cachedStats, cyc, lastRead, table, reqs>>

\* part_000 31-44, 138-142: CREATE TABLE answers and the client is released,
\* or it fails and the catch block logs without releasing; then app.listen
LegacyEnsureTable(ok) ==
    /\ entry = "legacy"
    /\ phase = "initTable"
    /\ pool' = IF ok THEN pool - 1 ELSE pool
    /\ phase' = "listening"
    /\ UNCHANGED <<entry, now, timer, cachedStats, cyc, lastRead, table, reqs>>

\* part_000 54-55: POST /api/save-code up to await pool.connect()
LegacySaveCodeReceive(r, walletAddress, code, amount) ==
    /\ LegacyServing
    /\ reqs[r].pc \in {"idle", "done"}
    /\ reqs' = [reqs EXCEPT ![r] =
                  [Idle EXCEPT !.pc = "connect", !.kind = "save", !.wallet = walletAddress,
                               !.code = code, !.amount = amount]]
    /\ UNCHANGED <<entry, phase, now, timer, cachedStats, cyc, lastRead, pool, table>>

\* part_000 108-109: GET /api/get-codes/:walletAddress up to await pool.connect()
LegacyGetCodesReceive(r, walletAddress) ==
    /\ LegacyServing
    /\ reqs[r].pc \in {"idle", "done"}
    /\ reqs' = [reqs EXCEPT ![r] =
                  [Idle EXCEPT !.pc = "connect", !.kind = "get", !.wallet = walletAddress]]
    /\ UNCHANGED <<entry, phase, now, timer, cachedStats, cyc, lastRead, pool, table>>

\* part_000 55, 109: pool.connect() resolves with a client, or rejects outside
\* the try block: the handler's promise rejects unhandled, no answer is sent
LegacyPoolConnect(r, connected, fatal) ==
    /\ LegacyServing
    /\ reqs[r].pc = "connect"
    /\ IF connected
       THEN /\ pool' = pool + 1
            /\ reqs' = [reqs EXCEPT ![r].pc = "query"]
            /\ phase' = phase
       ELSE /\ pool' = pool
            /\ reqs' = [reqs EXCEPT ![r].pc = "hung"]
            /\ phase' = IF fatal THEN "crashed" ELSE phase
    /\ UNCHANGED <<entry, now, timer, cachedStats, cyc, lastRead, table>>

\* part_000 56-67, 99-105: validation (400), then the SELECT of the wallet's
\* row answers or fails (500); finally releases the client on both returns
LegacySaveCodeSelect(r, ok) ==
    LET q == reqs[r]
        invalid == q.wallet = "" \/ q.code = "" \/ q.amount = <<>>
    IN
    /\ LegacyServing
    /\ q.pc = "query"
    /\ q.kind = "save"
    /\ IF invalid \/ ~ok
       THEN /\ reqs' = [reqs EXCEPT ![r] = Answer("save", IF invalid THEN 400 ELSE 500)]
            /\ pool' = pool - 1
       ELSE /\ reqs' = [reqs EXCEPT ![r] =
                          [q EXCEPT !.pc = "write", !.walletExists = <<CodesOf(table, q.wallet)>>]]
            /\ pool' = pool
    /\ UNCHANGED <<entry, phase, now, timer, cachedStats, cyc, lastRead, table>>

\* part_000 69-105: INSERT of a new row (which fails when the wallet has a row
\* by now: wallet_address is the primary key) or UPDATE of the codes column
\* with the object read by the SELECT plus this code; the client is released
LegacySaveCodeWrite(r, ok) ==
    LET q == reqs[r]
        currentCodes == [q.walletExists[1] EXCEPT ![q.code] =
                           <<[amount |-> q.amount[1], is_used |-> FALSE]>>]
        inserts == NoRows(q.walletExists[1])
        done == ok /\ (inserts => NoRows(CodesOf(table, q.wallet)))
    IN
    /\ LegacyServing
    /\ q.pc = "write"
    /\ table' = IF done
                THEN [k \in DOMAIN table |->
                        IF k[1] = q.wallet THEN currentCodes[k[2]] ELSE table[k]]
                ELSE table
    /\ reqs' = [reqs EXCEPT ![r] =
                  [q EXCEPT !.pc = "done", !.status = IF done THEN 200 ELSE 500,
                            !.walletExists = <<>>]]
    /\ pool' = pool - 1
    /\ UNCHANGED <<entry, phase, now, timer, cachedStats, cyc, lastRead>>

\* part_000 110-129: the SELECT answers or fails; the client is released
LegacyGetCodesQuery(r, ok) ==
    LET q == reqs[r]
        rows == {k \in DOMAIN table : k[1] = q.wallet /\ table[k] # <<>>}
    IN
    /\ LegacyServing
    /\ q.pc = "query"
    /\ q.kind = "get"
    /\ reqs' = [reqs EXCEPT ![r] =
                  [q EXCEPT !.pc = "done",
                            !.status = IF ok THEN 200 ELSE 500,
                            !.body = IF ok
                                     THEN <<{[value |-> k[2],
                                              amount |-> table[k][1].amount,
                                              is_used |-> table[k][1].is_used] : k \in rows}>>
                                     ELSE <<>>]]
    /\ pool' = pool - 1
    /\ UNCHANGED <<entry, phase, now, timer, cachedStats, cyc, lastRead, table>>

----------------------------------------------------------------------------

Init ==
    /\ entry \in Entries
    /\ phase = "boot"
    /\ now = StartTime
    /\ timer = <<>>
    /\ cachedStats = ZeroStats
    /\ cyc = [c \in CycleIds |-> Unused]
    /\ lastRead = <<>>
    /\ pool = 0
    /\ table = [k \in Wallets \X Codes |-> <<>>]
    /\ reqs = [r \in ReqIds |-> Idle]

Next ==
    \/ \E connected \in BOOLEAN, fatal \in BOOLEAN : InitializeDatabase(connected, fatal)
    \/ StartServer
    \/ StandaloneStart
    \/ \E c \in CycleIds :
         \E batch \in ServerBatches(Len(cyc[c].pages) < MaxFullPages) : FetchPage(c, batch)
    \/ \E c \in CycleIds, fatal \in BOOLEAN : FailPage(c, fatal)
    \/ TimerTick
    \/ GetTxStats
    \/ AdvanceClock(RefreshPeriod)

Spec == Init /\ [][Next]_vars

\* one invocation of fetchTxStats, the initial one, over the richer responses
NextAgg ==
    \/ \E connected \in BOOLEAN, fatal \in BOOLEAN : InitializeDatabase(connected, fatal)
    \/ StartServer
    \/ StandaloneStart
    \/ \E c \in CycleIds, batch \in AggBatches : FetchPage(c, batch)
    \/ \E c \in CycleIds : FetchPageNoResult(c)
    \/ \E c \in CycleIds, fatal \in BOOLEAN : FailPage(c, fatal)
    \/ GetTxStats
    \/ AdvanceClock(SubStep)

SpecAgg == Init /\ [][NextAgg]_vars

\* one invocation of fetchTxStats over pages whose last signatures are all
\* different, as the signatures of different transactions are
CursorSignatures == {"sigA", "sigB", "sigC", "sigD"}

CursorBatches(c) ==
    { Batch(Limit, Time(BoundaryTime), 0, Absent, sig) :
        sig \in CursorSignatures \ {cyc[c].received[i].last : i \in 1..Len(cyc[c].received)} }
    \cup { Batch(37, Time(BoundaryTime), 0, Absent, "sigZ") }

NextCursor ==
    \/ \E connected \in BOOLEAN, fatal \in BOOLEAN : InitializeDatabase(connected, fatal)
    \/ StartServer
    \/ StandaloneStart
    \/ \E c \in CycleIds : \E batch \in CursorBatches(c) : FetchPage(c, batch)
    \/ \E c \in CycleIds, fatal \in BOOLEAN : FailPage(c, fatal)
    \/ GetTxStats

SpecCursor == Init /\ [][NextCursor]_vars

\* the whole of index.ts: the statistics cache next to the wallet-code handlers
NextApi ==
    \/ \E connected \in BOOLEAN, fatal \in BOOLEAN : InitializeDatabase(connected, fatal)
    \/ StartServer
    \/ StandaloneStart
    \/ \E c \in CycleIds, batch \in ServerBatches(FALSE) : FetchPage(c, batch)
    \/ \E c \in CycleIds, fatal \in BOOLEAN : FailPage(c, fatal)
    \/ TimerTick
    \/ GetTxStats
    \/ AdvanceClock(RefreshPeriod)
    \/ \E r \in ReqIds, w \in Wallets \cup {""}, k \in Codes, a \in Amounts :
         SaveCodeReceive(r, w, k, a)
    \/ \E r \in ReqIds, w \in Wallets : GetCodesReceive(r, w)
    \/ \E r \in ReqIds, connected \in BOOLEAN, fatal \in BOOLEAN : PoolConnect(r, connected, fatal)
    \/ \E r \in ReqIds, ok \in BOOLEAN : SaveCodeQuery(r, ok)
    \/ \E r \in ReqIds, ok \in BOOLEAN : GetCodesQuery(r, ok)

SpecApi == Init /\ [][NextApi]_vars

\* the wallet-code handlers of both servers under concurrent requests
InitDb ==
    /\ entry \in {"index", "legacy"}
    /\ phase = "boot"
    /\ now = StartTime
    /\ timer = <<>>
    /\ cachedStats = ZeroStats
    /\ cyc = [c \in CycleIds |-> Unused]
    /\ lastRead = <<>>
    /\ pool = 0
    /\ table = [k \in Wallets \X DbCodes |-> <<>>]
    /\ reqs = [r \in DbReqIds |-> Idle]

NextDb ==
    \/ \E connected \in BOOLEAN, fatal \in BOOLEAN : InitializeDatabase(connected, fatal)
    \/ StartServer
    \/ \E c \in CycleIds, batch \in ServerBatches(FALSE) : FetchPage(c, batch)
    \/ \E r \in DbReqIds, w \in Wallets \cup {""}, k \in DbCodes, a \in Amounts :
         SaveCodeReceive(r, w, k, a)
    \/ \E r \in DbReqIds, w \in Wallets : GetCodesReceive(r, w)
    \/ \E r \in DbReqIds, connected \in BOOLEAN, fatal \in BOOLEAN : PoolConnect(r, connected, fatal)
    \/ \E r \in DbReqIds, ok \in BOOLEAN : SaveCodeQuery(r, ok)
    \/ \E r \in DbReqIds, ok \in BOOLEAN : GetCodesQuery(r, ok)
    \/ \E connected \in BOOLEAN : LegacyInitializeDatabase(connected)
    \/ \E ok \in BOOLEAN : LegacyEnsureTable(ok)
    \/ \E r \in DbReqIds, w \in Wallets \cup {""}, k \in DbCodes, a \in Amounts :
         LegacySaveCodeReceive(r, w, k, a)
    \/ \E r \in DbReqIds, w \in Wallets : LegacyGetCodesReceive(r, w)
    \/ \E r \in DbReqIds, connected \in BOOLEAN, fatal \in BOOLEAN :
         LegacyPoolConnect(r, connected, fatal)
    \/ \E r \in DbReqIds, ok \in BOOLEAN : LegacySaveCodeSelect(r, ok)
    \/ \E r \in DbReqIds, ok \in BOOLEAN : LegacySaveCodeWrite(r, ok)
    \/ \E r \in DbReqIds, ok \in BOOLEAN : LegacyGetCodesQuery(r, ok)

SpecDb == InitDb /\ [][NextDb]_vars

----------------------------------------------------------------------------
(* Properties *)

Done == {c \in CycleIds : cyc[c].pc = "done"}
Failed == {c \in CycleIds : cyc[c].pc = "failed"}

RECURSIVE SumSeq(_)
SumSeq(q) == IF q = <<>> THEN 0 ELSE q[1] + SumSeq(Tail(q))

RECURSIVE CountWhere(_, _, _)
\* how many records of the bag have a blockTime in the set ts
CountWhere(bag, ts, todo) ==
    IF todo = {} THEN 0
    ELSE LET t == CHOOSE x \in todo : TRUE
         IN (IF t \in ts THEN CopiesIn(t, bag) ELSE 0) + CountWhere(bag, ts, todo \ {t})

\* C1: when an invocation of fetchTxStats fails, the cache holds what it held
\* when that invocation started (and the next read returns it).
C1_FailureIsolation ==
    [][\A c \in CycleIds :
          (cyc[c].pc = "fetching" /\ cyc'[c].pc = "failed")
              => cachedStats' = cyc[c].startStats]_vars

\* C2: at most one invocation of fetchTxStats is in flight at any time.
C2_SingleFlight == Cardinality(InFlight) <= 1

\* a snapshot is the initial one or the whole triple one completed invocation computed
WholeSnapshot(st) ==
    \/ st = ZeroStats
    \/ \E c \in Done : cyc[c].result = <<st>>

\* C3: the cache, and the body of every read, is the zero snapshot or exactly
\* the triple computed by one completed invocation.
C3_SnapshotAtomicity ==
    /\ WholeSnapshot(cachedStats)
    /\ lastRead # <<>> => WholeSnapshot(lastRead[1])

C3_Witness ==
    /\ Cardinality({cyc[c].result : c \in Done}) >= 2
    /\ \E c \in Done : lastRead = cyc[c].result
    /\ lastRead # <<>> /\ lastRead[1].last24hTx # lastRead[1].totalTx

\* C4: all reads served while an invocation is in flight return the snapshot
\* that was cached when the invocation started.
C4_ReadsDuringRefresh == \A c \in CycleIds : cyc[c].seen \subseteq {cyc[c].startStats}

\* C5: no read is served while the initial invocation is still in flight.
C5_StartupOrdering == cyc[1].seen = {}

\* C6: a failed invocation is never fatal: the process goes on to accept reads,
\* and a read before any success returns the zero snapshot.
C6_NeverFatal ==
    /\ Failed # {} => phase = "listening"
    /\ (lastRead # <<>> /\ Done = {}) => lastRead[1] = ZeroStats

\* C7: a read of the statistics changes neither the cache nor the set of
\* invocations; the cache changes only when an invocation completes, to that
\* invocation's result; an invocation starts only at startup or when the timer
\* expires; the save-code and get-codes handlers leave cache and invocations alone.
C7_ReadPathFrame ==
    [][/\ cachedStats' # cachedStats =>
            \E c \in CycleIds : /\ cyc[c].pc = "fetching"
                                 /\ cyc'[c].pc = "done"
                                 /\ cyc'[c].result = <<cachedStats'>>
       /\ lastRead' # lastRead =>
            /\ cachedStats' = cachedStats
            /\ \A c \in CycleIds : cyc'[c].pc = cyc[c].pc
       /\ (\E c \in CycleIds : cyc[c].pc = "unused" /\ cyc'[c].pc # "unused") =>
            (timer' # timer \/ phase' # phase)
       /\ (reqs' # reqs \/ table' # table) =>
            (cachedStats' = cachedStats /\ cyc' = cyc /\ lastRead' = lastRead)
      ]_vars

C7_Witness ==
    /\ lastRead = <<cachedStats>>
    /\ cachedStats # ZeroStats
    /\ InFlight # {}
    /\ \E r \in ReqIds : reqs[r].kind = "save" /\ reqs[r].status = 200
    /\ \E k \in DOMAIN table : table[k] # <<>>

\* C8: the calls stop with the first page of fewer than 100 records, and the
\* record count is the sum of the sizes of the pages fetched.
C8_PaginationTermination ==
    \A c \in CycleIds :
        LET p == cyc[c].pages IN
        /\ cyc[c].pc \in {"fetching", "failed"} =>
               /\ \A i \in 1..Len(p) : p[i] = 100
               /\ Len(cyc[c].requests) = Len(p) + 1
        /\ cyc[c].pc = "done" =>
               /\ Len(p) >= 1
               /\ p[Len(p)] < 100
               /\ \A i \in 1..(Len(p) - 1) : p[i] = 100
               /\ Len(cyc[c].requests) = Len(p)
               /\ cyc[c].result[1].totalTx = SumSeq(p)

C8_Witness ==
    \E c \in Done :
        /\ cyc[c].pages = <<100, 100, 100, 0>>
        /\ Len(cyc[c].requests) = 4
        /\ cachedStats.totalTx = 300

\* the times of the window [floor(now/1000) - 86400, floor(now/1000)]
Window(nowMs) == { Time(t) : t \in (nowMs \div 1000 - 86400)..(nowMs \div 1000) }

\* C9 as claimed: the stored last24hTx is the number of fetched records whose
\* blockTime lies inside [now - 86400 s, now].
C9_InsideWindow ==
    \A c \in Done :
        LET st == cyc[c].result[1]
            all == cyc[c].allSignatures
        IN /\ st.totalTx = BagCardinality(all)
           /\ st.last24hTx = CountWhere(all, Window(st.lastUpdated), BagToSet(all))

\* the times at or after the start of the window, with no upper end
FromWindowStart(nowMs, ts) == { bt \in ts : bt # <<>> /\ bt[1] - (nowMs \div 1000 - 86400) \in Nat }

\* C9 amended: totalTx is the number of fetched records and last24hTx the
\* number of them whose blockTime is present and not before
\* floor(now/1000) - 86400; a blockTime after now counts too.
C9_FromWindowStart ==
    \A c \in Done :
        LET st == cyc[c].result[1]
            all == cyc[c].allSignatures
        IN /\ st.totalTx = BagCardinality(all)
           /\ st.last24hTx =
                 CountWhere(all, FromWindowStart(st.lastUpdated, BagToSet(all)), BagToSet(all))

C9_Witness ==
    \E c \in Done :
        /\ cachedStats = cyc[c].result[1]
        /\ cachedStats.totalTx = 237
        /\ cachedStats.last24hTx = 101
        /\ CopiesIn(Time(BoundaryTime), cyc[c].allSignatures) = 100
        /\ CopiesIn(Time(2 * (StartTime \div MsPerSecond)), cyc[c].allSignatures) = 1

\* C10: the cached snapshot always has 0 <= last24hTx <= totalTx.
C10_CountsOrdered ==
    /\ cachedStats.last24hTx >= 0
    /\ cachedStats.last24hTx <= cachedStats.totalTx

C10_Witness ==
    /\ cachedStats.last24hTx > 0
    /\ cachedStats.last24hTx < cachedStats.totalTx
    /\ Failed # {}
    /\ Cardinality(Done) >= 2
    /\ \E c \in Done : cyc[c].result # <<cachedStats>>

\* windowStart of the snapshot a completed invocation stored
WindowStartOf(c) == cyc[c].result[1].lastUpdated \div 1000 - 86400

\* C11: every record whose blockTime equals windowStart is counted in
\* last24hTx, and no record whose blockTime equals windowStart - 1 is.
C11_WindowBoundary ==
    \A c \in Done :
        LET st == cyc[c].result[1]
            all == cyc[c].allSignatures
        IN /\ st.last24hTx >= CopiesIn(<<WindowStartOf(c)>>, all)
           /\ st.last24hTx <= BagCardinality(all) - CopiesIn(<<WindowStartOf(c) - 1>>, all)
           /\ BagToSet(all) = {<<WindowStartOf(c)>>} => st.last24hTx = st.totalTx
           /\ BagToSet(all) = {<<WindowStartOf(c) - 1>>} => st.last24hTx = 0

C11_Witness ==
    \E c \in Done :
        /\ cachedStats = cyc[c].result[1]
        /\ CopiesIn(<<WindowStartOf(c)>>, cyc[c].allSignatures) = 100
        /\ CopiesIn(<<WindowStartOf(c) - 1>>, cyc[c].allSignatures) = 37
        /\ cachedStats.totalTx = 137
        /\ cachedStats.last24hTx = 100

\* C12: every fetched record without a blockTime is counted in totalTx and
\* none of them is counted in last24hTx.
C12_MissingBlockTime ==
    \A c \in Done :
        LET st == cyc[c].result[1]
            all == cyc[c].allSignatures
            missing == CopiesIn(<<>>, all)
        IN /\ st.totalTx = missing + CountWhere(all, BagToSet(all) \ {<<>>}, BagToSet(all))
           /\ st.last24hTx <= st.totalTx - missing
           /\ BagToSet(all) = {<<>>} => (st.totalTx = missing /\ st.last24hTx = 0)

C12_Witness ==
    \E c \in Done :
        /\ cachedStats = cyc[c].result[1]
        /\ CopiesIn(<<>>, cyc[c].allSignatures) = 101
        /\ cachedStats.totalTx = 137
        /\ cachedStats.last24hTx = 36

\* C13: the first call of an invocation carries no cursor, every later call
\* carries the signature of the last record of the page received just before
\* it, and no two calls of the invocation carry the same cursor.
C13_CursorChaining ==
    \A c \in Started :
        LET q == cyc[c].requests
            got == cyc[c].received
        IN /\ q[1] = "undefined"
           /\ \A i \in 2..Len(q) : /\ i - 1 <= Len(got)
                                    /\ got[i - 1].last # "undefined"
                                    /\ q[i] = got[i - 1].last
           /\ \A i \in 1..Len(q) : \A j \in 1..Len(q) : q[i] = q[j] => i = j

C13_Witness ==
    \E c \in Done :
        /\ Len(cyc[c].requests) = 4
        /\ cyc[c].requests[2] = "sigC"
        /\ cyc[c].requests[3] = "sigA"
        /\ cyc[c].requests[4] = "sigD"
        /\ cyc[c].pages = <<100, 100, 100, 37>>

\* C14: a response without a result field is the last response of its
\* invocation and counts as zero records; the invocation completes and stores
\* as totalTx the number of records of its earlier pages.
C14_MissingResult ==
    \A c \in Started :
        \A i \in 1..Len(cyc[c].received) :
            ~cyc[c].received[i].result =>
                /\ cyc[c].pages[i] = 0
                /\ i = Len(cyc[c].received)
                /\ cyc[c].pc = "done"
                /\ cyc[c].result[1].totalTx = SumSeq(SubSeq(cyc[c].pages, 1, i - 1))
                /\ cyc[c].result[1].totalTx = BagCardinality(cyc[c].allSignatures)

C14_Witness ==
    \E c \in Done :
        /\ Len(cyc[c].received) = 3
        /\ ~cyc[c].received[3].result
        /\ cachedStats = cyc[c].result[1]
        /\ cachedStats.totalTx = 200

\* C16: the lastUpdated of the cached snapshot never decreases.
C16_LastUpdatedMonotone ==
    [][cachedStats'.lastUpdated >= cachedStats.lastUpdated]_vars

C16_Witness ==
    /\ \E c \in Done : \E d \in Done :
          /\ c < d
          /\ cyc[c].result[1].lastUpdated > cyc[d].result[1].lastUpdated
          /\ cachedStats = cyc[c].result[1]
    /\ Failed # {}

\* C15: once the startup cycle has ended, by success or by failure, the
\* hourly timer is armed and the process is alive to run it.
C15_RefreshSurvivesFailure ==
    cyc[1].pc \in {"done", "failed"} => (timer # <<>> /\ phase \in {"initialFetch", "listening"})

\* request r is answered with success in this step
Answered(r) == reqs[r].pc # "done" /\ reqs'[r].pc = "done" /\ reqs'[r].status = 200

\* C17: a save that is answered with success sets the entry of its wallet and
\* code to its amount with is_used = false and leaves every other saved code
\* as it was; the table changes in no other way; and a get-codes that is
\* answered with success returns every code the table holds for the wallet.
C17_NoLostSaves ==
    [][/\ \A r \in DbReqIds :
            Answered(r) =>
               IF reqs[r].kind = "save"
               THEN table' = [table EXCEPT ![<<reqs[r].wallet, reqs[r].code>>] =
                                <<[amount |-> reqs[r].amount[1], is_used |-> FALSE]>>]
               ELSE reqs'[r].body =
                      <<{[value |-> k[2], amount |-> table[k][1].amount, is_used |-> FALSE] :
                           k \in {j \in DOMAIN table : j[1] = reqs[r].wallet /\ table[j] # <<>>}}>>
       /\ table' # table => \E r \in DbReqIds : Answered(r) /\ reqs[r].kind = "save"]_vars

\* C18: the number of checked-out clients is never negative and is zero
\* whenever initializeDatabase has returned and no request is in progress.
C18_ConnectionRelease ==
    /\ pool >= 0
    /\ (/\ phase \notin {"boot", "initTable"}
        /\ \A r \in DOMAIN reqs : reqs[r].pc \in {"idle", "done", "hung"}) => pool = 0

====
